---- MODULE Spec2Model ----
(***************************************************************************)
(* forksort (src/main.c): a mergesort over a tree of processes.  Every     *)
(* task reads its standard input to the end; a task that read one line     *)
(* prints it and exits; any other task creates four pipes, forks two       *)
(* children that re-execute the program, feeds each child one half of its  *)
(* lines, waits for both children and merges their output.                 *)
(*                                                                         *)
(* A line is the sequence of its bytes as getline returns it: the          *)
(* terminator (byte 10) is part of it when the input had one.  A pipe is   *)
(* the queue of the lines in flight, bounded by cap lines.  A process is   *)
(* named by its place in the tree: 1 is the root, the children of p are    *)
(* 2p and 2p+1.                                                            *)
(***************************************************************************)
EXTENDS Integers, Sequences, FiniteSets

\* ----------------------------------------------------------------- bounds
MaxLines == 3
MaxPipeCap == 2
MaxProcs == 7
MaxCount == 3
MaxFaultLines == 4
MaxFaults == 1
MaxIngest == 11

\* ------------------------------------------------------ program constants
NL == 10
STEPSIZE == 10
EXIT_SUCCESS == 0
EXIT_FAILURE == 1
\* what waitpid reports for a task ended by a signal: not EXIT_SUCCESS
SIGNALED == 2
\* status of a task that has not terminated
RUNNING == -1
Root == 1

\* The bytes of the lines the model feeds the program: the empty line, a
\* line holding a tab (byte 9, smaller than the terminator) and a line
\* holding "a" (byte 97, larger than the terminator).
Contents == {<<>>, <<9>>, <<97>>}
TermLines == {c \o <<NL>> : c \in Contents}
UntermLines == Contents \ {<<>>}

Procs == 1 .. MaxProcs

\* An input of n lines: getline ends a line at each terminator, so only the
\* last line of a stream can lack one, and a line without one is not empty.
InputsOf(n, term, unterm) ==
  IF n = 0 THEN {<<>>}
  ELSE {Append(h, l) : h \in [1 .. (n - 1) -> term], l \in term \cup unterm}
Inputs == UNION {InputsOf(n, TermLines, UntermLines) : n \in 0 .. MaxLines}
FaultInputs == UNION {InputsOf(n, {<<97, NL>>}, {}) : n \in 1 .. MaxFaultLines}
\* Inputs long enough for the line array to fill: the bytes do not matter.
IngestInputs == UNION {InputsOf(n, {<<97, NL>>, <<NL>>}, {}) : n \in 0 .. MaxIngest}
Streams == UNION {[1 .. n -> TermLines] : n \in 0 .. MaxCount}

VARIABLES
  input,         \* what the root's standard input held at the start
  streams,       \* the two streams handed to a merger started on its own
  cap,           \* the capacity of a pipe, in lines: the smallest, or MaxPipeCap
  nfaults,       \* tasks ended from outside so far
  pc,            \* where each process is in main / mergesort
  fds,           \* the pipe ends each process holds open
  inq,           \* inq[p]: the lines in flight in p's standard input
  outq,          \* outq[p]: the lines in flight in p's standard output
  lines,         \* the line array of main
  arrlen,        \* its allocated capacity
  overrun,       \* a line pointer was stored at an index outside the array
  wbuf,          \* the stdio buffer of wr_file
  wr_count1,
  wr_count2,
  status1,       \* what waitpid(pid1) stored; RUNNING before it returns
  status2,
  left,
  right,
  lock,
  processed_c1,
  processed_c2,
  idx,           \* the variable i of the two drain loops of mergesort
  lastcmp,       \* the last strcmp of the merger: <<left, right, left < right>>
  obuf,          \* the stdio buffer of stdout
  written,       \* everything the process has printed to stdout so far
  est,           \* the status given to exit()
  status         \* the termination status, as the parent's waitpid sees it

ioVars == <<fds, inq, outq>>
ingestVars == <<lines, arrlen, overrun>>
feedVars == <<wbuf, wr_count1, wr_count2>>
waitVars == <<status1, status2>>
mergeVars == <<left, right, lock, processed_c1, processed_c2, idx, lastcmp>>
outVars == <<obuf, written>>
envVars == <<input, streams, cap, nfaults>>
vars == <<envVars, pc, ioVars, ingestVars, feedVars, waitVars, mergeVars, outVars, est, status>>

\* ------------------------------------------------------------ pure helpers
Min(a, b) == IF a <= b THEN a ELSE b
Max(a, b) == IF a >= b THEN a ELSE b
Take(s, k) == SubSeq(s, 1, k)
Drop(s, k) == SubSeq(s, k + 1, Len(s))

Child(p, k) == 2 * p + (k - 1)
Parent(c) == c \div 2

\* The byte of a C string at index i (1-based): the terminating NUL past its end.
ByteAt(s, i) == IF i <= Len(s) THEN s[i] ELSE 0

\* strcmp of two C strings: the difference of the first bytes that differ.
strcmp(s, t) ==
  LET D == {i \in 1 .. Max(Len(s), Len(t)) : ByteAt(s, i) # ByteAt(t, i)}
  IN IF D = {} THEN 0
     ELSE LET i == CHOOSE j \in D : \A k \in D : j <= k
          IN ByteAt(s, i) - ByteAt(t, i)

\* print: the line with its terminator, if it has one, overwritten by NUL.
StripNL(line) ==
  IF line # <<>> /\ line[Len(line)] = NL THEN Take(line, Len(line) - 1) ELSE line

\* print: what printf("%s\n", line) writes after the strip.
PrintOut(line) == StripNL(line) \o <<NL>>

BaseCase_off(n) == n > 1

BaseCase_pair(n) == n \in {1, 2}

\* main, line 279: the task that read exactly one line prints it and exits.
BaseCase(n) == n = 1

FirstHalf_ceil(ls) == Take(ls, (Len(ls) + 1) \div 2)

\* main, lines 341-347: the lines written to the first child.
FirstHalf(ls) == Take(ls, Len(ls) \div 2)

SecondHalf_skip(ls, c1) == Drop(ls, c1 + 1)

SecondHalf_all(ls, c1) == ls

\* main, lines 384-390: the lines written to the second child.
SecondHalf(ls, c1) == Drop(ls, c1)

\* One pass of the getline loop of main over the lines qs that are ready:
\* each is stored at lines[numlines], and only then the array grows by
\* STEPSIZE if numlines has reached arrlen.  overrun: some store found
\* numlines at or beyond arrlen, outside the array.
RECURSIVE Ingest(_, _, _)
Ingest(ls, al, qs) ==
  IF qs = <<>> THEN [lines |-> ls, arrlen |-> al, overrun |-> FALSE]
  ELSE LET rest == Ingest(Append(ls, Head(qs)),
                          IF Len(ls) = al THEN al + STEPSIZE ELSE al,
                          Tail(qs))
       IN [rest EXCEPT !.overrun = @ \/ Len(ls) >= al]

cmp_lock_stay(l, r, lk) ==
  LET less == strcmp(l, r) < 0
  IN [less |-> less,
      lock |-> IF lk = 0 THEN (IF less THEN 2 ELSE 1) ELSE lk,
      bad |-> lk \notin {0, 1, 2}]

\* cmp_lock: which line is printed, and the new lock.
cmp_lock(l, r, lk) ==
  LET less == strcmp(l, r) < 0
  IN [less |-> less,
      lock |-> CASE lk = 0 -> (IF less THEN 2 ELSE 1)
                 [] lk = 1 -> (IF less THEN 2 ELSE 1)
                 [] lk = 2 -> (IF less THEN 2 ELSE 1)
                 [] OTHER -> lk,
      bad |-> lk \notin {0, 1, 2}]

\* ---------------------------------------------------------------- pipes
Holders(c, d, e) == {p \in Procs : <<c, d, e>> \in fds[p]}

\* The four pipes main creates, as the eight ends the process then holds.
NewPipes(p) ==
  {<<Child(p, k), d, e>> : k \in {1, 2}, d \in {"in", "out"}, e \in {"r", "w"}}

\* A write to the standard output of c: the root's (a terminal, a file) takes
\* all there is and is always read.
OutRoom(c) == IF c = Root THEN Len(obuf[c]) ELSE cap - Len(outq[c])
OutHasReader(c) == c = Root \/ Holders(c, "out", "r") # {}
InRoom(c) == cap - Len(inq[c])

\* getline on the output of child c returns: a line is there, or end of file.
CanRead(c) == outq[c] # <<>> \/ Holders(c, "out", "w") = {}

Live(p) == pc[p] \notin {"none", "done"}

\* ------------------------------------------------------------------ Init
Fresh ==
  /\ nfaults = 0
  /\ lines = [p \in Procs |-> <<>>]
  /\ arrlen = [p \in Procs |-> STEPSIZE]
  /\ overrun = [p \in Procs |-> FALSE]
  /\ wbuf = [p \in Procs |-> <<>>]
  /\ left = [p \in Procs |-> <<>>]
  /\ right = [p \in Procs |-> <<>>]
  /\ lock = [p \in Procs |-> 0]
  /\ processed_c1 = [p \in Procs |-> 0]
  /\ processed_c2 = [p \in Procs |-> 0]
  /\ idx = [p \in Procs |-> 0]
  /\ lastcmp = [p \in Procs |-> <<>>]
  /\ obuf = [p \in Procs |-> <<>>]
  /\ written = [p \in Procs |-> <<>>]
  /\ est = [p \in Procs |-> EXIT_SUCCESS]
  /\ inq = [p \in Procs |-> IF p = Root THEN input ELSE <<>>]

\* The root has just been started on its input: nothing is forked yet.
Started ==
  /\ Fresh
  /\ streams = <<<<>>, <<>>>>
  /\ cap \in {1, MaxPipeCap}
  /\ pc = [p \in Procs |-> IF p = Root THEN "read" ELSE "none"]
  /\ fds = [p \in Procs |-> IF p = Root THEN {<<Root, "in", "r">>, <<Root, "out", "w">>} ELSE {}]
  /\ outq = [p \in Procs |-> <<>>]
  /\ wr_count1 = [p \in Procs |-> 0]
  /\ wr_count2 = [p \in Procs |-> 0]
  /\ status1 = [p \in Procs |-> RUNNING]
  /\ status2 = [p \in Procs |-> RUNNING]
  /\ status = [p \in Procs |-> RUNNING]

Init == input \in Inputs /\ Started

InitFault == input \in FaultInputs /\ Started

InitIngest == input \in IngestInputs /\ Started

\* The root enters mergesort (line 410): both children have exited with
\* EXIT_SUCCESS and what they wrote waits in the two pipes: as many lines
\* as the count says, or fewer.
InitMerge ==
  /\ input = <<>>
  /\ Fresh
  /\ streams \in Streams \X Streams
  /\ cap = MaxCount
  /\ pc = [p \in Procs |-> IF p = Root THEN "merge" ELSE IF p \in {2, 3} THEN "done" ELSE "none"]
  /\ fds = [p \in Procs |-> IF p = Root
                            THEN {<<Root, "in", "r">>, <<Root, "out", "w">>,
                                  <<2, "out", "r">>, <<3, "out", "r">>}
                            ELSE {}]
  /\ outq = [p \in Procs |-> IF p = 2 THEN streams[1] ELSE IF p = 3 THEN streams[2] ELSE <<>>]
  /\ \E n1 \in 1 .. MaxCount : wr_count1 = [p \in Procs |-> IF p = Root THEN n1 ELSE 0]
  /\ \E n2 \in 1 .. MaxCount : wr_count2 = [p \in Procs |-> IF p = Root THEN n2 ELSE 0]
  /\ Len(streams[1]) <= wr_count1[Root]
  /\ Len(streams[2]) <= wr_count2[Root]
  /\ status1 = [p \in Procs |-> IF p = Root THEN EXIT_SUCCESS ELSE RUNNING]
  /\ status2 = [p \in Procs |-> IF p = Root THEN EXIT_SUCCESS ELSE RUNNING]
  /\ status = [p \in Procs |-> IF p \in {2, 3} THEN EXIT_SUCCESS ELSE RUNNING]

\* --------------------------------------------------------------- actions
GoExit_ok(p, st) ==
  /\ pc' = [pc EXCEPT ![p] = "exit"]
  /\ est' = [est EXCEPT ![p] = EXIT_SUCCESS]

\* error_exit, and exit(EXIT_SUCCESS): stdout is flushed by Exit below.
GoExit(p, st) ==
  /\ pc' = [pc EXCEPT ![p] = "exit"]
  /\ est' = [est EXCEPT ![p] = st]

\* The process is gone: its descriptors are closed, its parent can reap it.
Terminate(p, st) ==
  /\ pc' = [pc EXCEPT ![p] = "done"]
  /\ status' = [status EXCEPT ![p] = st]
  /\ fds' = [fds EXCEPT ![p] = {}]

\* main, lines 261-277: getline takes the lines that have arrived.  A store
\* outside the array is undefined: it lands in the slack of the allocation
\* and the loop goes on, or the process is ended by a signal.
ReadLines(p) ==
  /\ pc[p] = "read"
  /\ inq[p] # <<>>
  /\ LET r == Ingest(lines[p], arrlen[p], inq[p])
     IN /\ lines' = [lines EXCEPT ![p] = r.lines]
        /\ arrlen' = [arrlen EXCEPT ![p] = r.arrlen]
        /\ overrun' = [overrun EXCEPT ![p] = @ \/ r.overrun]
        /\ \/ UNCHANGED <<pc, fds, status>>
           \/ r.overrun /\ Terminate(p, SIGNALED)
  /\ inq' = [inq EXCEPT ![p] = <<>>]
  /\ UNCHANGED <<envVars, outq, feedVars, waitVars, mergeVars, outVars, est>>

\* main, lines 261 and 279-305: getline meets the end of the input; the
\* task with one line prints it, any other creates its four pipes.
ReadEOF(p) ==
  /\ pc[p] = "read"
  /\ inq[p] = <<>>
  /\ Holders(p, "in", "w") = {}
  /\ IF BaseCase(Len(lines[p]))
     THEN /\ obuf' = [obuf EXCEPT ![p] = Append(@, lines[p][1])]
          /\ written' = [written EXCEPT ![p] = Append(@, lines[p][1])]
          /\ GoExit(p, EXIT_SUCCESS)
          /\ UNCHANGED fds
     ELSE /\ fds' = [fds EXCEPT ![p] = @ \cup NewPipes(p)]
          /\ pc' = [pc EXCEPT ![p] = "fork1"]
          /\ UNCHANGED <<outVars, est>>
  /\ UNCHANGED <<envVars, inq, outq, ingestVars, feedVars, waitVars, mergeVars, status>>

\* main, lines 309-347 and 352-390: fork; the parent closes the child's
\* ends of the two pipes and puts the child's half into wr_file.  fork
\* fails when the process table is full.
Fork(p, k) ==
  /\ pc[p] = (IF k = 1 THEN "fork1" ELSE "fork2")
  /\ LET c == Child(p, k)
         half == IF k = 1 THEN FirstHalf(lines[p]) ELSE SecondHalf(lines[p], wr_count1[p])
     IN IF c > MaxProcs
        THEN /\ GoExit(p, EXIT_FAILURE)
             /\ UNCHANGED <<fds, feedVars>>
        ELSE /\ pc' = [pc EXCEPT ![p] = (IF k = 1 THEN "fclose1" ELSE "fclose2"),
                                 ![c] = "forked"]
             /\ fds' = [fds EXCEPT ![c] = fds[p],
                                   ![p] = @ \ {<<c, "out", "w">>, <<c, "in", "r">>}]
             /\ wbuf' = [wbuf EXCEPT ![p] = half]
             /\ wr_count1' = IF k = 1 THEN [wr_count1 EXCEPT ![p] = Len(half)] ELSE wr_count1
             /\ wr_count2' = IF k = 2 THEN [wr_count2 EXCEPT ![p] = Len(half)] ELSE wr_count2
             /\ UNCHANGED est
  /\ UNCHANGED <<envVars, inq, outq, ingestVars, waitVars, mergeVars, outVars, status>>

ClosedAtExec_own(c) ==
  {<<c, "in", "w">>, <<c, "out", "r">>}
    \cup {<<Parent(c), "in", "r">>, <<Parent(c), "out", "w">>}

\* main, lines 315-330 and 358-373: the ends the child closes: the far
\* ends of its own two pipes, the stdin and stdout it inherited (replaced
\* by dup2), and every end of its sibling's two pipes.
ClosedAtExec(c) ==
  {<<c, "in", "w">>, <<c, "out", "r">>}
    \cup {<<Parent(c), "in", "r">>, <<Parent(c), "out", "w">>}
    \cup {e \in NewPipes(Parent(c)) : e[1] # c}

\* main, lines 313-332 and 356-375: the child keeps the read end of its
\* input pipe as stdin and the write end of its output pipe as stdout,
\* closes every other pipe end it inherited, and re-executes the program.
Exec(c) ==
  /\ pc[c] = "forked"
  /\ fds' = [fds EXCEPT ![c] = @ \ ClosedAtExec(c)]
  /\ pc' = [pc EXCEPT ![c] = "read"]
  /\ UNCHANGED <<envVars, inq, outq, ingestVars, feedVars, waitVars, mergeVars, outVars, est, status>>

\* main, lines 348-349 and 391-392: fclose writes the buffered lines into
\* the child's input pipe, as far as there is room, and closes the write
\* end once all are written.  Writing to a pipe nobody reads raises SIGPIPE.
FClose(p, k) ==
  /\ pc[p] = (IF k = 1 THEN "fclose1" ELSE "fclose2")
  /\ LET c == Child(p, k)
         n == Min(InRoom(c), Len(wbuf[p]))
     IN IF wbuf[p] # <<>> /\ Holders(c, "in", "r") = {}
        THEN /\ Terminate(p, SIGNALED)
             /\ UNCHANGED <<inq, wbuf>>
        ELSE /\ wbuf[p] = <<>> \/ n > 0
             /\ inq' = [inq EXCEPT ![c] = @ \o Take(wbuf[p], n)]
             /\ wbuf' = [wbuf EXCEPT ![p] = Drop(@, n)]
             /\ IF n = Len(wbuf[p])
                THEN /\ fds' = [fds EXCEPT ![p] = @ \ {<<c, "in", "w">>}]
                     /\ pc' = [pc EXCEPT ![p] = (IF k = 1 THEN "fork2" ELSE "wait1")]
                ELSE UNCHANGED <<fds, pc>>
             /\ UNCHANGED status
  /\ UNCHANGED <<envVars, outq, ingestVars, wr_count1, wr_count2, waitVars, mergeVars, outVars, est>>

WaitOK_any(st) == st # RUNNING

\* main, lines 403 and 406: the status the parent accepts from waitpid.
WaitOK(st) == st = EXIT_SUCCESS

\* main, lines 402-410: waitpid returns once the child has terminated; any
\* status but EXIT_SUCCESS is fatal.  After the second wait, mergesort starts.
Wait(p, k) ==
  /\ pc[p] = (IF k = 1 THEN "wait1" ELSE "wait2")
  /\ pc[Child(p, k)] = "done"
  /\ status1' = IF k = 1 THEN [status1 EXCEPT ![p] = status[Child(p, k)]] ELSE status1
  /\ status2' = IF k = 2 THEN [status2 EXCEPT ![p] = status[Child(p, k)]] ELSE status2
  /\ IF ~WaitOK(status[Child(p, k)])
     THEN GoExit(p, EXIT_FAILURE)
     ELSE /\ pc' = [pc EXCEPT ![p] = (IF k = 1 THEN "wait2" ELSE "merge")]
          /\ UNCHANGED est
  /\ UNCHANGED <<envVars, ioVars, ingestVars, feedVars, mergeVars, outVars, status>>

Trivial(p) == wr_count1[p] = 1 /\ wr_count2[p] = 1

InLoop_either(p) == processed_c1[p] # wr_count1[p] \/ processed_c2[p] # wr_count2[p]

\* mergesort, line 190: the condition of the while loop.
InLoop(p) == processed_c1[p] # wr_count1[p] /\ processed_c2[p] # wr_count2[p]

TrivialOut_leftfirst(l, r) == <<PrintOut(l), PrintOut(r)>>

\* mergesort, lines 174-180: what the trivial case prints.
TrivialOut(l, r) ==
  IF strcmp(l, r) < 0 THEN <<PrintOut(l), PrintOut(r)>> ELSE <<PrintOut(r), PrintOut(l)>>

\* mergesort, lines 171-188: one line from each side, one comparison.
TrivialMerge(p) ==
  LET c1 == Child(p, 1)
      c2 == Child(p, 2)
  IN
  /\ pc[p] = "merge"
  /\ Trivial(p)
  /\ CanRead(c1)
  /\ outq[c1] # <<>> => CanRead(c2)
  /\ IF outq[c1] = <<>>
     THEN /\ GoExit(p, EXIT_FAILURE)
          /\ UNCHANGED <<outq, left, right, lastcmp, outVars>>
     ELSE IF outq[c2] = <<>>
     THEN /\ GoExit(p, EXIT_FAILURE)
          /\ outq' = [outq EXCEPT ![c1] = Tail(@)]
          /\ left' = [left EXCEPT ![p] = Head(outq[c1])]
          /\ UNCHANGED <<right, lastcmp, outVars>>
     ELSE LET l == Head(outq[c1])
              r == Head(outq[c2])
              less == strcmp(l, r) < 0
              out == TrivialOut(l, r)
          IN /\ outq' = [outq EXCEPT ![c1] = Tail(@), ![c2] = Tail(@)]
             /\ left' = [left EXCEPT ![p] = StripNL(l)]
             /\ right' = [right EXCEPT ![p] = StripNL(r)]
             /\ lastcmp' = [lastcmp EXCEPT ![p] = <<l, r, less>>]
             /\ obuf' = [obuf EXCEPT ![p] = @ \o out]
             /\ written' = [written EXCEPT ![p] = @ \o out]
             /\ GoExit(p, EXIT_SUCCESS)
  /\ UNCHANGED <<envVars, fds, inq, ingestVars, feedVars, lock, processed_c1,
                 processed_c2, idx, waitVars, status>>

NeedRight_always(lk) == TRUE

\* mergesort, lines 191-204: the sides the loop reads from under each lock.
NeedLeft(lk) == lk \in {0, 2}
NeedRight(lk) == lk \in {0, 1}

\* mergesort, lines 190-209: one iteration of the loop: the reads the lock
\* asks for, then cmp_lock.
GeneralLoopStep(p) ==
  LET c1 == Child(p, 1)
      c2 == Child(p, 2)
      needL == NeedLeft(lock[p])
      needR == NeedRight(lock[p])
      failL == needL /\ outq[c1] = <<>>
      failR == ~failL /\ needR /\ outq[c2] = <<>>
      l == IF needL /\ ~failL THEN Head(outq[c1]) ELSE left[p]
      r == IF needR /\ ~failR THEN Head(outq[c2]) ELSE right[p]
      res == cmp_lock(l, r, lock[p])
  IN
  /\ pc[p] = "merge"
  /\ InLoop(p)
  /\ needL => CanRead(c1)
  /\ (needR /\ ~failL) => CanRead(c2)
  /\ outq' = [outq EXCEPT ![c1] = IF needL /\ ~failL THEN Tail(@) ELSE @,
                          ![c2] = IF needR /\ ~failL /\ ~failR THEN Tail(@) ELSE @]
  /\ IF failL \/ failR \/ res.bad
     THEN /\ GoExit(p, EXIT_FAILURE)
          /\ left' = [left EXCEPT ![p] = l]
          /\ UNCHANGED <<right, lock, processed_c1, processed_c2, lastcmp, outVars>>
     ELSE /\ lastcmp' = [lastcmp EXCEPT ![p] = <<l, r, res.less>>]
          /\ lock' = [lock EXCEPT ![p] = res.lock]
          /\ left' = [left EXCEPT ![p] = IF res.less THEN StripNL(l) ELSE l]
          /\ right' = [right EXCEPT ![p] = IF res.less THEN r ELSE StripNL(r)]
          /\ processed_c1' = [processed_c1 EXCEPT ![p] = IF res.less THEN @ + 1 ELSE @]
          /\ processed_c2' = [processed_c2 EXCEPT ![p] = IF res.less THEN @ ELSE @ + 1]
          /\ obuf' = [obuf EXCEPT ![p] = Append(@, PrintOut(IF res.less THEN l ELSE r))]
          /\ written' = [written EXCEPT ![p] = Append(@, PrintOut(IF res.less THEN l ELSE r))]
          /\ UNCHANGED <<pc, est>>
  /\ UNCHANGED <<envVars, fds, inq, ingestVars, feedVars, waitVars, idx, status>>

\* The loop as mergesort runs it: not in the trivial case (line 171).
LoopStep(p) == ~Trivial(p) /\ GeneralLoopStep(p)

\* mergesort, lines 211-236 (entry of the drain): the loop is over; the
\* locked line is printed, and the side that is not exhausted is drained.
GeneralLoopExit(p) ==
  LET p1 == IF lock[p] = 1 THEN processed_c1[p] + 1 ELSE processed_c1[p]
      p2 == IF lock[p] = 2 THEN processed_c2[p] + 1 ELSE processed_c2[p]
      line == IF lock[p] = 1 THEN left[p] ELSE right[p]
  IN
  /\ pc[p] = "merge"
  /\ ~InLoop(p)
  /\ IF lock[p] \notin {1, 2}
     THEN /\ GoExit(p, EXIT_FAILURE)
          /\ UNCHANGED <<left, right, processed_c1, processed_c2, idx, outVars>>
     ELSE /\ obuf' = [obuf EXCEPT ![p] = Append(@, PrintOut(line))]
          /\ written' = [written EXCEPT ![p] = Append(@, PrintOut(line))]
          /\ left' = [left EXCEPT ![p] = IF lock[p] = 1 THEN StripNL(@) ELSE @]
          /\ right' = [right EXCEPT ![p] = IF lock[p] = 2 THEN StripNL(@) ELSE @]
          /\ processed_c1' = [processed_c1 EXCEPT ![p] = p1]
          /\ processed_c2' = [processed_c2 EXCEPT ![p] = p2]
          /\ IF p1 # wr_count1[p]
             THEN /\ idx' = [idx EXCEPT ![p] = p1]
                  /\ IF p1 < wr_count1[p]
                     THEN pc' = [pc EXCEPT ![p] = "drain1"] /\ UNCHANGED est
                     ELSE GoExit(p, EXIT_SUCCESS)
             ELSE IF p2 # wr_count2[p]
             THEN /\ idx' = [idx EXCEPT ![p] = p2]
                  /\ IF p2 < wr_count2[p]
                     THEN pc' = [pc EXCEPT ![p] = "drain2"] /\ UNCHANGED est
                     ELSE GoExit(p, EXIT_SUCCESS)
             ELSE /\ GoExit(p, EXIT_SUCCESS)
                  /\ UNCHANGED idx
  /\ UNCHANGED <<envVars, ioVars, ingestVars, feedVars, waitVars, lock, lastcmp, status>>

LoopExit(p) == ~Trivial(p) /\ GeneralLoopExit(p)

\* mergesort, lines 226-236: one iteration of a drain loop; after the last,
\* mergesort returns and main calls exit(EXIT_SUCCESS) (line 412).
DrainStep(p, k) ==
  LET c == Child(p, k)
      wr == IF k = 1 THEN wr_count1[p] ELSE wr_count2[p]
  IN
  /\ pc[p] = (IF k = 1 THEN "drain1" ELSE "drain2")
  /\ CanRead(c)
  /\ IF outq[c] = <<>>
     THEN /\ GoExit(p, EXIT_FAILURE)
          /\ UNCHANGED <<outq, left, right, idx, outVars>>
     ELSE /\ outq' = [outq EXCEPT ![c] = Tail(@)]
          /\ left' = IF k = 1 THEN [left EXCEPT ![p] = StripNL(Head(outq[c]))] ELSE left
          /\ right' = IF k = 2 THEN [right EXCEPT ![p] = StripNL(Head(outq[c]))] ELSE right
          /\ obuf' = [obuf EXCEPT ![p] = Append(@, PrintOut(Head(outq[c])))]
          /\ written' = [written EXCEPT ![p] = Append(@, PrintOut(Head(outq[c])))]
          /\ idx' = [idx EXCEPT ![p] = @ + 1]
          /\ IF idx[p] + 1 < wr
             THEN UNCHANGED <<pc, est>>
             ELSE GoExit(p, EXIT_SUCCESS)
  /\ UNCHANGED <<envVars, fds, inq, ingestVars, feedVars, lock, processed_c1,
                 processed_c2, lastcmp, waitVars, status>>

\* exit (lines 36, 187, 281, 412): stdout is flushed into the pipe as far
\* as there is room; when nothing is left to write the process terminates
\* with the status it gave.  Writing to a pipe nobody reads raises SIGPIPE.
Exit(p) ==
  /\ pc[p] = "exit"
  /\ LET n == Min(OutRoom(p), Len(obuf[p]))
     IN IF obuf[p] # <<>> /\ ~OutHasReader(p)
        THEN /\ Terminate(p, SIGNALED)
             /\ UNCHANGED <<outq, obuf>>
        ELSE /\ obuf[p] = <<>> \/ n > 0
             /\ outq' = [outq EXCEPT ![p] = @ \o Take(obuf[p], n)]
             /\ obuf' = [obuf EXCEPT ![p] = Drop(@, n)]
             /\ IF n = Len(obuf[p])
                THEN Terminate(p, est[p])
                ELSE UNCHANGED <<pc, status, fds>>
  /\ UNCHANGED <<envVars, inq, ingestVars, feedVars, waitVars, mergeVars, written, est>>

\* A spawned task is ended from outside (a signal): nothing is flushed.
Crash(p) ==
  /\ p # Root
  /\ Live(p)
  /\ nfaults < MaxFaults
  /\ nfaults' = nfaults + 1
  /\ Terminate(p, SIGNALED)
  /\ UNCHANGED <<input, streams, cap, inq, outq, ingestVars, feedVars, waitVars, mergeVars, outVars, est>>

Step(p) ==
  \/ ReadLines(p)
  \/ ReadEOF(p)
  \/ Fork(p, 1)
  \/ Fork(p, 2)
  \/ Exec(p)
  \/ FClose(p, 1)
  \/ FClose(p, 2)
  \/ Wait(p, 1)
  \/ Wait(p, 2)
  \/ TrivialMerge(p)
  \/ LoopStep(p)
  \/ LoopExit(p)
  \/ DrainStep(p, 1)
  \/ DrainStep(p, 2)
  \/ Exit(p)

Next == \E p \in Procs : Step(p)

NextFault == (\E p \in Procs : Step(p)) \/ (\E p \in Procs : Crash(p))

NextMerge ==
  \/ TrivialMerge(Root)
  \/ LoopStep(Root)
  \/ LoopExit(Root)
  \/ DrainStep(Root, 1)
  \/ DrainStep(Root, 2)
  \/ Exit(Root)

Spec == Init /\ [][Next]_vars

SpecFault == InitFault /\ [][NextFault]_vars

SpecMerge == InitMerge /\ [][NextMerge]_vars

\* mergesort without its trivial case (lines 170-188): the loop, the
\* pending line and the drain, for every pair of counts.
NextGeneral ==
  \/ GeneralLoopStep(Root)
  \/ GeneralLoopExit(Root)
  \/ DrainStep(Root, 1)
  \/ DrainStep(Root, 2)
  \/ Exit(Root)

SpecGeneral == InitMerge /\ [][NextGeneral]_vars

\* The root up to the end of its input (lines 254-282).
NextIngest ==
  \/ ReadLines(Root)
  \/ ReadEOF(Root)
  \/ Exit(Root)

SpecIngest == InitIngest /\ [][NextIngest]_vars

\* ------------------------------------------------- notions of the claims
\* A Line of the specification: the bytes without the terminator.
Content(raw) == IF raw # <<>> /\ raw[Len(raw)] = NL THEN SubSeq(raw, 1, Len(raw) - 1) ELSE raw

\* Lexicographic byte order on Lines: a is a prefix of b, or the first
\* byte that differs is smaller in a.
LexLeq(a, b) ==
  \/ Len(a) <= Len(b) /\ \A i \in 1 .. Len(a) : a[i] = b[i]
  \/ \E i \in 1 .. Min(Len(a), Len(b)) :
       /\ a[i] < b[i]
       /\ \A j \in 1 .. (i - 1) : a[j] = b[j]
LexLess(a, b) == LexLeq(a, b) /\ a # b

SortedSeq(s) == \A i \in 1 .. (Len(s) - 1) : LexLeq(Content(s[i]), Content(s[i + 1]))

Count(s, c) == Cardinality({i \in 1 .. Len(s) : Content(s[i]) = c})
SameBag(s, t) ==
  /\ Len(s) = Len(t)
  /\ \A c \in {Content(s[i]) : i \in 1 .. Len(s)} \cup {Content(t[i]) : i \in 1 .. Len(t)} :
       Count(s, c) = Count(t, c)

\* The line ends with exactly one terminator.
Terminated(raw) ==
  /\ raw # <<>>
  /\ raw[Len(raw)] = NL
  /\ \A i \in 1 .. (Len(raw) - 1) : raw[i] # NL

Ancestors(c) == {a \in Procs : \E d \in 1 .. MaxProcs : a = c \div (2 ^ d) /\ a >= 1}

\* The process waits for something only another process can bring about:
\* a line or the end of a pipe it reads, room in a pipe it writes, the exit
\* of a child.
Blocked(p) ==
  \/ pc[p] = "read" /\ inq[p] = <<>> /\ Holders(p, "in", "w") # {}
  \/ \E k \in {1, 2} :
       /\ pc[p] = (IF k = 1 THEN "fclose1" ELSE "fclose2")
       /\ wbuf[p] # <<>>
       /\ Holders(Child(p, k), "in", "r") # {}
       /\ InRoom(Child(p, k)) = 0
  \/ \E k \in {1, 2} :
       /\ pc[p] = (IF k = 1 THEN "wait1" ELSE "wait2")
       /\ pc[Child(p, k)] # "done"
  \/ pc[p] = "merge" /\ Trivial(p)
       /\ ~(CanRead(Child(p, 1)) /\ (outq[Child(p, 1)] # <<>> => CanRead(Child(p, 2))))
  \/ pc[p] = "merge" /\ ~Trivial(p) /\ InLoop(p)
       /\ \/ lock[p] \in {0, 2} /\ ~CanRead(Child(p, 1))
          \/ lock[p] = 1 /\ ~CanRead(Child(p, 2))
          \/ lock[p] = 0 /\ outq[Child(p, 1)] # <<>> /\ ~CanRead(Child(p, 2))
  \/ \E k \in {1, 2} :
       /\ pc[p] = (IF k = 1 THEN "drain1" ELSE "drain2")
       /\ ~CanRead(Child(p, k))
  \/ pc[p] = "exit" /\ obuf[p] # <<>> /\ OutHasReader(p) /\ OutRoom(p) = 0

\* Some task is live and every live task is blocked: nothing moves again.
Deadlock == (\E p \in Procs : Live(p)) /\ (\A p \in Procs : Live(p) => Blocked(p))

Spawned(p, k) == Child(p, k) \in Procs /\ pc[Child(p, k)] # "none"
Ingested(p) == pc[p] \notin {"none", "forked", "read"}

\* ---------------------------------------------------------- sanity checks
TypeOK ==
  /\ pc \in [Procs -> {"none", "forked", "read", "fork1", "fclose1", "fork2", "fclose2",
                       "wait1", "wait2", "merge", "drain1", "drain2", "exit", "done"}]
  /\ status \in [Procs -> {RUNNING, EXIT_SUCCESS, EXIT_FAILURE, SIGNALED}]
  /\ \A p \in Procs : (pc[p] = "done") = (status[p] # RUNNING)
  /\ \A p \in Procs : lock[p] \in {0, 1, 2}
  /\ \A p \in Procs : Len(inq[p]) <= cap \/ p = Root
  /\ \A p \in Procs : Len(outq[p]) <= cap \/ p = Root

\* Pipes carry whole lines: a line without a terminator is the last of its
\* stream, so the next line read never runs into it.
WholeLines ==
  \A p \in Procs :
    /\ \A i \in 1 .. (Len(inq[p]) - 1) : Terminated(inq[p][i])
    /\ \A i \in 1 .. (Len(outq[p]) - 1) : Terminated(outq[p][i])
    /\ \A i \in 1 .. (Len(lines[p]) - 1) : Terminated(lines[p][i])
    /\ (inq[p] # <<>> /\ ~Terminated(inq[p][Len(inq[p])])) => wbuf[Parent(Max(p, 2))] = <<>>
    /\ (outq[p] # <<>> /\ ~Terminated(outq[p][Len(outq[p])])) => obuf[p] = <<>>

\* Blocked is exactly: the process is live and has no step.
BlockedIsDisabled == \A p \in Procs : Live(p) => (Blocked(p) <=> ~ENABLED Step(p))

\* ---------------------------------------------------------------- claims

\* C1: whenever a task (the root, and every task below it) has exited with
\* status zero, the lines it wrote to its standard output are in
\* non-decreasing lexicographic byte order.
C1_OutputSorted ==
  \A p \in Procs :
    (pc[p] = "done" /\ status[p] = EXIT_SUCCESS /\ Len(input) >= 1) => SortedSeq(written[p])

\* C2: whenever the root has exited with status zero on an input of at
\* least one line, the lines on its standard output are the lines of its
\* input, each as often as the input holds it.
C2_Permutation ==
  (pc[Root] = "done" /\ status[Root] = EXIT_SUCCESS /\ Len(input) >= 1)
    => /\ SameBag(outq[Root], input)
       /\ written[Root] = outq[Root]

C2_Witness ==
  /\ pc[Root] = "done"
  /\ status[Root] = EXIT_SUCCESS
  /\ Len(input) = 3
  /\ Content(input[1]) = Content(input[3])
  /\ Content(input[1]) # Content(input[2])
  /\ Len(outq[Root]) = 3

\* C3: on an input of no line, no task of the tree ever exits with a
\* failure, and the root, once terminated, has exit status zero and has
\* written nothing.
C3_EmptyInput ==
  Len(input) = 0 =>
    /\ \A p \in Procs : est[p] = EXIT_SUCCESS
    /\ pc[Root] = "done" => (status[Root] = EXIT_SUCCESS /\ outq[Root] = <<>>)

\* C4: once a spawned task has terminated with a status other than success,
\* none of its ancestors exits with status zero, and none of them is left
\* alive in a tree where nothing can move any more (each of them terminates).
C4_FailurePropagates ==
  \A c \in Procs \ {Root} :
    (pc[c] = "done" /\ status[c] # EXIT_SUCCESS) =>
      \A a \in Ancestors(c) :
        /\ status[a] # EXIT_SUCCESS
        /\ ~(Live(a) /\ Deadlock)

\* C5: when the merger has ended on two sorted streams that each hold as
\* many lines as their count says, it has exited with status zero and has
\* written count1 + count2 lines, sorted, which are the lines of the streams.
C5_MergeSorted ==
  (/\ pc[Root] = "done"
   /\ Len(streams[1]) = wr_count1[Root]
   /\ Len(streams[2]) = wr_count2[Root]
   /\ SortedSeq(streams[1])
   /\ SortedSeq(streams[2]))
    => /\ status[Root] = EXIT_SUCCESS
       /\ Len(outq[Root]) = wr_count1[Root] + wr_count2[Root]
       /\ SameBag(outq[Root], streams[1] \o streams[2])
       /\ SortedSeq(outq[Root])

\* C6: on an input of at least one line, with no failure from outside, no
\* reachable state is a deadlock (every live task blocked on a pipe or on a
\* child), and the root, once terminated, has exit status zero.
C6_NoDeadlock ==
  Len(input) >= 1 =>
    /\ ~Deadlock
    /\ pc[Root] = "done" => status[Root] = EXIT_SUCCESS

\* C7, as claimed: of N >= 2 lines the first child is given ceil(N/2) and
\* the second floor(N/2).
C7_FirstChildCeil ==
  \A p \in Procs :
    LET N == Len(lines[p])
    IN (Ingested(p) /\ N >= 2) =>
         /\ Spawned(p, 1) => wr_count1[p] = (N + 1) \div 2
         /\ Spawned(p, 2) => wr_count2[p] = N \div 2

\* C7, amended: of N >= 2 lines the first child is given floor(N/2) lines
\* and the second ceil(N/2), and that many lines each child reads.
C7_FirstChildFloor ==
  \A p \in Procs :
    LET N == Len(lines[p])
    IN (Ingested(p) /\ N >= 2) =>
         \A k \in {1, 2} :
           LET share == IF k = 1 THEN N \div 2 ELSE (N + 1) \div 2
               given == IF k = 1 THEN wr_count1[p] ELSE wr_count2[p]
           IN Spawned(p, k) =>
                /\ given = share
                /\ Ingested(Child(p, k)) => Len(lines[Child(p, k)]) = share

C7_Witness ==
  /\ Len(lines[Root]) = 3
  /\ Ingested(2) /\ Len(lines[2]) = 1
  /\ Ingested(3) /\ Len(lines[3]) = 2
  /\ wr_count1[Root] = 1 /\ wr_count2[Root] = 2

\* C8: a task that has read exactly one line is exiting or has exited with
\* status zero, has written that line and nothing else, holds no pipe end
\* but its own standard input and output, and has no child.
C8_SingleLine ==
  \A p \in Procs :
    (Ingested(p) /\ Len(lines[p]) = 1) =>
      /\ pc[p] \in {"exit", "done"}
      /\ est[p] = EXIT_SUCCESS
      /\ written[p] = <<lines[p][1]>>
      /\ fds[p] \subseteq {<<p, "in", "r">>, <<p, "out", "w">>}
      /\ \A k \in {1, 2} : ~Spawned(p, k)
      /\ pc[p] = "done" => status[p] = EXIT_SUCCESS

C8_Witness ==
  /\ Len(input) = 1
  /\ pc[Root] = "done"
  /\ status[Root] = EXIT_SUCCESS
  /\ outq[Root] = input

\* C9: every line a task has written to its standard output ends with
\* exactly one terminator.
C9_EveryLineTerminated ==
  \A p \in Procs : \A i \in 1 .. Len(written[p]) : Terminated(written[p][i])

\* C10: every comparison of the merger says "left is smaller" exactly when
\* the left line without its terminator is lexicographically smaller than
\* the right line without its terminator.
C10_CompareStripped ==
  \A p \in Procs :
    lastcmp[p] # <<>> =>
      (lastcmp[p][3] <=> LexLess(Content(lastcmp[p][1]), Content(lastcmp[p][2])))

\* What p has observed of its children (lines 403-408).
SawBothSucceed(p) == status1[p] = EXIT_SUCCESS /\ status2[p] = EXIT_SUCCESS
SawFailure(p) ==
  \/ status1[p] \notin {RUNNING, EXIT_SUCCESS}
  \/ status2[p] \notin {RUNNING, EXIT_SUCCESS}

\* A task that has seen a child fail is exiting or gone, with a failure
\* status, nothing printed, nothing left to flush and nothing to wait for.
C11_FailureSeen ==
  \A p \in Procs :
    SawFailure(p) =>
      /\ pc[p] \in {"exit", "done"}
      /\ est[p] = EXIT_FAILURE
      /\ written[p] = <<>>
      /\ obuf[p] = <<>>
      /\ ~Blocked(p)
      /\ pc[p] = "done" => status[p] # EXIT_SUCCESS

\* A step that takes a line out of a child's output, or in which a task
\* with children prints, is taken by a task that has seen both children
\* exit with EXIT_SUCCESS, and both have.
C11_MergeStep ==
  /\ \A c \in Procs \ {Root} :
       Len(outq'[c]) < Len(outq[c]) =>
         /\ SawBothSucceed(Parent(c))
         /\ status[Child(Parent(c), 1)] = EXIT_SUCCESS
         /\ status[Child(Parent(c), 2)] = EXIT_SUCCESS
  /\ \A p \in Procs :
       ((Spawned(p, 1) \/ Spawned(p, 2)) /\ written'[p] # written[p]) =>
         SawBothSucceed(p)

FedBoth(p) == pc[p] \in {"wait1", "wait2", "merge", "drain1", "drain2"}

\* A task that has re-executed the program and still reads its input holds
\* the read end of its input pipe, the write end of its output pipe, and
\* nothing else.
OwnEndsOnly(c) == pc[c] = "read" => fds[c] = {<<c, "in", "r">>, <<c, "out", "w">>}

\* C12, as claimed: a child that has re-executed holds exactly its own two
\* pipe ends, and once the parent has wired and fed both children every end
\* of its four pipes is open in at most one process.
C12_SingleOwner ==
  /\ \A c \in Procs : OwnEndsOnly(c)
  /\ \A p \in Procs :
       FedBoth(p) =>
         \A e \in NewPipes(p) : Cardinality(Holders(e[1], e[2], e[3])) <= 1

\* C12, amended: a child that has re-executed holds exactly its own two
\* pipe ends, and once the parent has wired and fed both children every end
\* of its four pipes is open in at most one process that is past its
\* exec; the write ends of the children's input pipes are open in no such
\* process, and the parent holds nothing of the four pipes but the read
\* ends of the two output pipes.
C12_SingleOwnerAfterExec ==
  /\ \A c \in Procs : OwnEndsOnly(c)
  /\ \A p \in Procs :
       FedBoth(p) =>
         /\ \A e \in NewPipes(p) :
              Cardinality({q \in Holders(e[1], e[2], e[3]) : pc[q] # "forked"}) <= 1
         /\ \A k \in {1, 2} :
              \A q \in Holders(Child(p, k), "in", "w") : pc[q] = "forked"
         /\ fds[p] \cap NewPipes(p) \subseteq {<<Child(p, 1), "out", "r">>, <<Child(p, 2), "out", "r">>}

\* The parent has fed both children while the first child has not reached
\* its close calls and still holds the write end of its sibling's input.
C12_Witness ==
  /\ pc[Root] = "wait1"
  /\ pc[2] = "forked"
  /\ <<3, "in", "w">> \in fds[2]
  /\ pc[3] = "read"
  /\ inq[3] = <<>>

\* The lines written to the k-th child of p, once p has closed the write
\* end: what the child has stored and what still waits in its input pipe.
Given(p, k) == lines[Child(p, k)] \o inq[Child(p, k)]

\* C13: once a task that read N >= 2 lines has fed both children, the lines
\* written to the first child followed by the lines written to the second
\* are its line array in order, wr_count1 and wr_count2 (unchanged up to
\* and through the merge) are the numbers of lines written to each child,
\* their sum is N and both are at least 1.
C13_FeedRanges ==
  \A p \in Procs :
    (FedBoth(p) /\ Len(lines[p]) >= 2) =>
      /\ Given(p, 1) \o Given(p, 2) = lines[p]
      /\ wr_count1[p] = Len(Given(p, 1))
      /\ wr_count2[p] = Len(Given(p, 2))
      /\ wr_count1[p] + wr_count2[p] = Len(lines[p])
      /\ wr_count1[p] >= 1
      /\ wr_count2[p] >= 1

C13_Witness ==
  /\ pc[Root] = "merge"
  /\ Len(input) = 3
  /\ input[1] # input[2]
  /\ input[2] # input[3]
  /\ lines[2] = <<input[1]>>
  /\ lines[3] = <<input[2], input[3]>>
  /\ wr_count1[Root] = 1
  /\ wr_count2[Root] = 2

\* The processes whose two children have a place in the tree.
Mergers == {p \in Procs : Child(p, 2) \in Procs}

\* The last line p has printed, in a step that printed exactly one.
Emits(p, line) == written'[p] = Append(written[p], PrintOut(line))

\* One completed iteration of the merge loop of p, by the lock it starts
\* with: the lines read, the line printed, the line retained, the new
\* lock and the count that grows.
LoopIteration(p) ==
  LET c1 == Child(p, 1)
      c2 == Child(p, 2)
      readL == Len(outq[c1]) - Len(outq'[c1])
      readR == Len(outq[c2]) - Len(outq'[c2])
      l == IF lock[p] = 1 THEN left[p] ELSE Head(outq[c1])
      r == IF lock[p] = 2 THEN right[p] ELSE Head(outq[c2])
      less == strcmp(l, r) < 0
  IN /\ readL = (IF lock[p] = 1 THEN 0 ELSE 1)
     /\ readR = (IF lock[p] = 2 THEN 0 ELSE 1)
     /\ lock'[p] \in {1, 2}
     /\ IF less
        THEN /\ Emits(p, l)
             /\ lock'[p] = 2
             /\ right'[p] = r
             /\ processed_c1'[p] = processed_c1[p] + 1
             /\ processed_c2'[p] = processed_c2[p]
        ELSE /\ Emits(p, r)
             /\ lock'[p] = 1
             /\ left'[p] = l
             /\ processed_c1'[p] = processed_c1[p]
             /\ processed_c2'[p] = processed_c2[p] + 1

\* p has gone once round the loop of lines 190-209.
LoopTaken(p) ==
  /\ pc[p] = "merge"
  /\ pc'[p] = "merge"
  /\ <<outq[Child(p, 1)], outq[Child(p, 2)], written[p], lock[p], left[p], right[p],
       processed_c1[p], processed_c2[p]>>'
       # <<outq[Child(p, 1)], outq[Child(p, 2)], written[p], lock[p], left[p], right[p],
           processed_c1[p], processed_c2[p]>>

LoopOver(p) == pc[p] = "merge" /\ ~Trivial(p) /\ ~InLoop(p)

\* Both streams hold as many lines as their counts say.
FullStreams == Len(streams[1]) = wr_count1[Root] /\ Len(streams[2]) = wr_count2[Root]

\* C15: when the merge loop has ended (both counts at least 1), exactly
\* one of processed_c1 = wr_count1 and processed_c2 = wr_count2 holds, the
\* lock is 1 or 2, and the locked line is the next unprinted line of the
\* other side, which is not exhausted; the lock is never outside {0, 1, 2},
\* and on streams that hold what their counts say no error exit is taken.
C15_LoopExitState ==
  /\ lock[Root] \in {0, 1, 2}
  /\ FullStreams => est[Root] = EXIT_SUCCESS
  /\ (LoopOver(Root) /\ wr_count1[Root] >= 1 /\ wr_count2[Root] >= 1) =>
       /\ (processed_c1[Root] = wr_count1[Root]) # (processed_c2[Root] = wr_count2[Root])
       /\ lock[Root] \in {1, 2}
       /\ lock[Root] = 1 =>
            /\ processed_c2[Root] = wr_count2[Root]
            /\ processed_c1[Root] < wr_count1[Root]
            /\ left[Root] = streams[1][processed_c1[Root] + 1]
       /\ lock[Root] = 2 =>
            /\ processed_c1[Root] = wr_count1[Root]
            /\ processed_c2[Root] < wr_count2[Root]
            /\ right[Root] = streams[2][processed_c2[Root] + 1]

C15_Witness ==
  /\ LoopOver(Root)
  /\ lock[Root] = 1
  /\ wr_count1[Root] = 3
  /\ wr_count2[Root] = 2
  /\ processed_c1[Root] = 1
  /\ processed_c2[Root] = 2
  /\ left[Root] = streams[1][2]

\* The lines the merger has taken from its left (k = 1) and right (k = 2)
\* stream, and the lines of that side it has printed: during a drain the
\* loop variable i counts them.
ReadFrom(k) == Len(streams[k]) - Len(outq[Child(Root, k)])
EmittedFrom(k) ==
  IF k = 1 THEN (IF pc[Root] = "drain1" THEN idx[Root] ELSE processed_c1[Root])
           ELSE (IF pc[Root] = "drain2" THEN idx[Root] ELSE processed_c2[Root])
Pending(k) == ReadFrom(k) - EmittedFrom(k)

\* C16: between two iterations of the merger (of the loop, or of a drain)
\* each side has 0 or 1 line read and not printed and the two sides have
\* at most 1 together; in the loop the lock is the side that has it; the
\* lines read from a side never exceed its count, and a merger that exits
\* with EXIT_SUCCESS has read exactly wr_count1 and wr_count2 lines.
C16_OneLookAhead ==
  /\ ReadFrom(1) <= wr_count1[Root]
  /\ ReadFrom(2) <= wr_count2[Root]
  /\ pc[Root] \in {"merge", "drain1", "drain2"} =>
       /\ Pending(1) \in {0, 1}
       /\ Pending(2) \in {0, 1}
       /\ Pending(1) + Pending(2) <= 1
  /\ pc[Root] = "merge" =>
       /\ lock[Root] = 0 => (Pending(1) = 0 /\ Pending(2) = 0)
       /\ lock[Root] = 1 => (Pending(1) = 1 /\ Pending(2) = 0)
       /\ lock[Root] = 2 => (Pending(1) = 0 /\ Pending(2) = 1)
  /\ (pc[Root] \in {"exit", "done"} /\ est[Root] = EXIT_SUCCESS) =>
       /\ ReadFrom(1) = wr_count1[Root]
       /\ ReadFrom(2) = wr_count2[Root]

C16_Witness ==
  /\ pc[Root] = "merge"
  /\ lock[Root] = 1
  /\ wr_count2[Root] = 3
  /\ ReadFrom(1) = 1
  /\ ReadFrom(2) = 2
  /\ processed_c1[Root] = 0
  /\ processed_c2[Root] = 2

\* A stream ends before it has delivered the lines its count says.
ShortStream ==
  \/ Len(streams[1]) < wr_count1[Root]
  \/ Len(streams[2]) < wr_count2[Root]

\* C17: a merger of which one stream holds fewer lines than its count
\* never waits for ever, never calls exit with EXIT_SUCCESS and, once
\* terminated, has the status EXIT_FAILURE.
C17_ShortStreamFails ==
  ShortStream =>
    /\ ~Blocked(Root)
    /\ pc[Root] \in {"exit", "done"} => est[Root] = EXIT_FAILURE
    /\ pc[Root] = "done" => status[Root] = EXIT_FAILURE

\* The right stream ends one line short, in the drain.
C17_Witness ==
  /\ pc[Root] = "done"
  /\ status[Root] = EXIT_FAILURE
  /\ wr_count1[Root] = 1
  /\ Len(streams[1]) = 1
  /\ wr_count2[Root] = 3
  /\ Len(streams[2]) = 2
  /\ Len(outq[Root]) = 3

\* C18: run on two streams of one line each, the loop, the print of the
\* locked line and the drain end with exit status EXIT_SUCCESS and with
\* the two lines printed that the trivial case prints for them, in the
\* same order.
C18_TrivialIsGeneral ==
  (Trivial(Root) /\ FullStreams) =>
    /\ est[Root] = EXIT_SUCCESS
    /\ pc[Root] \notin {"drain1", "drain2"}
    /\ pc[Root] \in {"exit", "done"} =>
         written[Root] = TrivialOut(streams[1][1], streams[2][1])
    /\ pc[Root] = "done" =>
         /\ status[Root] = EXIT_SUCCESS
         /\ outq[Root] = TrivialOut(streams[1][1], streams[2][1])

\* The general path has merged two equal lines.
C18_Witness ==
  /\ Trivial(Root)
  /\ FullStreams
  /\ streams[1][1] = streams[2][1]
  /\ pc[Root] = "done"
  /\ lock[Root] = 1
  /\ processed_c1[Root] = 1
  /\ processed_c2[Root] = 1
  /\ Len(outq[Root]) = 2

\* The tasks of the tree: those started, those that forked no child, those
\* that forked two, and those forked by another task.
Tasks == {p \in Procs : pc[p] # "none"}
Leaves == {p \in Tasks : ~Spawned(p, 1) /\ ~Spawned(p, 2)}
Splitters == {p \in Tasks : Spawned(p, 1) /\ Spawned(p, 2)}
SpawnedTasks == Tasks \ {Root}

\* C19: when the root has exited with status zero on an input of N >= 1
\* lines, the tree has N tasks without children, each of which read
\* exactly one line, N - 1 tasks with two children, each of which read
\* more than one line, no task with one child, and 2N - 2 tasks that were
\* forked.
C19_TreeShape ==
  (pc[Root] = "done" /\ status[Root] = EXIT_SUCCESS /\ Len(input) >= 1) =>
    /\ Cardinality(Leaves) = Len(input)
    /\ \A p \in Leaves : Len(lines[p]) = 1
    /\ Cardinality(Splitters) = Len(input) - 1
    /\ \A p \in Splitters : Len(lines[p]) >= 2
    /\ Tasks = Leaves \cup Splitters
    /\ Cardinality(SpawnedTasks) = 2 * Len(input) - 2
    /\ \A p \in Tasks : pc[p] = "done" /\ status[p] = EXIT_SUCCESS

C19_Witness ==
  /\ pc[Root] = "done"
  /\ status[Root] = EXIT_SUCCESS
  /\ Len(input) = 3
  /\ Leaves = {2, 6, 7}
  /\ Splitters = {1, 3}

\* C20: no task has stored a line pointer at an index that is not below
\* the allocated capacity of its line array.
C20_StoreInBounds == \A p \in Procs : ~overrun[p]

====
